---- MODULE Spec2Model ----
(***************************************************************************)
(* check-domains (src/src/main.rs): main creates WORKERS bounded mpsc      *)
(* channels, spawns one worker_openssl task per channel, reads the rows of *)
(* a CSV file and sends the i-th record to worker i % WORKERS, then drops  *)
(* the senders and awaits every worker.  A worker receives records one at  *)
(* a time, opens a TCP connection to <domain>:443, runs a TLS handshake    *)
(* and prints a line for a completed handshake or for SSL error code 5.    *)
(***************************************************************************)
EXTENDS Integers, Sequences, FiniteSets, TLC

\* ---------------------------------------------------------------- bounds
\* const WORKERS (50 in the source), scaled down
WORKERS == 2
\* const CHANNEL_BUFFER (10 in the source), scaled down
CHANNEL_BUFFER == 1
\* largest number of data rows of the input file
MaxRows == 3
\* largest number of data rows of the input file, for the runs that need a
\* worker to be sent a record after its second one
LongRows == 4
\* largest number of data rows of the input file, for the runs about a file
\* with no record
ShortRows == 1
\* largest number of data rows of the input file, for the runs that fill every
\* queue, keep every worker probing and leave main with one more record
DispatchRows == 6

Workers == 0 .. (WORKERS - 1)

\* ------------------------------------------------------------ the inputs
\* What the network does to a probe of a host: the TCP connect to host:443
\* fails (DNS failure, refusal), or it succeeds and the handshake completes,
\* fails with SSL error code 5, or fails with another error.
Hosts == {"up", "reset", "badcert", "unreachable"}

\* A data row of the file that does not deserialize into a Domain.
Malformed == "malformed"

RowKinds == Hosts \cup {Malformed}

\* env::args().nth(1): no argument, a path that cannot be opened, a CSV file.
ArgKinds == {"none", "unreadable", "file"}

\* struct Domain, as deserialized from data row i (0-based) whose Domain
\* column is host d.  Rank and Open Page Rank are columns of the same row.
Domain(i, d) == [rank |-> i + 1, domain |-> d, page_rank |-> 10 - i]

\* TcpStream::connect(host:443) succeeds
ConnectOk(d) == d # "unreachable"

\* connector.connect(domain, stream): 0 when the handshake completes, else the
\* raw code of the SslError that is the source of the HandshakeError
\* (5 = SSL_ERROR_SYSCALL, 1 = SSL_ERROR_SSL).
HandshakeCode(d) ==
    CASE d = "up" -> 0
      [] d = "reset" -> 5
      [] OTHER -> 1

\* if src.code().as_raw() == 5
BlockedCode == 5

\* impl Display for Domain, and the two lines the worker prints with it
Display(dom) == <<"Domain:", dom.domain, "Rank =", dom.rank, "Open Page Rank =", dom.page_rank>>
OkLine(index, dom) == [stream |-> "stdout", text |-> <<index, "ok">> \o Display(dom)]
BlockedLine(dom) == [stream |-> "stderr", text |-> <<"BLOCKED! domain">> \o Display(dom)]

\* -------------------------------------------------------------- the state
VARIABLES
    arg,      \* the command line: a member of ArgKinds
    rows,     \* the data rows of the file, in source order (members of RowKinds)
    mpc,      \* where main is: "args", "read", "send", "collect", "join", "ok", "err"
    index,    \* the enumerate() index of the row main is at
    tx,       \* tx[w]: main still holds the Sender of channel w
    rx,       \* rx[w]: worker w still holds the Receiver of channel w
    queue,    \* queue[w]: the records buffered in channel w, oldest first
    wpc,      \* where worker w is: "start", "recv", "probe", "done"
    cur,      \* cur[w]: the record worker w is probing (<<>> when none)
    wres,     \* wres[w]: how task w ended: "none", "Ok", "ErrSsl", "ErrConnect", "cancelled"
    out,      \* out[w]: the lines worker w printed, in order
    enq,      \* history: enq[w] is every source index main enqueued onto channel w
    probed,   \* history: probed[w] is every source index worker w dequeued to probe it
    fin       \* history: fin[w] is every source index whose probe by w has ended

vars == <<arg, rows, mpc, index, tx, rx, queue, wpc, cur, wres, out, enq, probed, fin>>

input == <<arg, rows>>
mainVars == <<mpc, index, tx>>
hist == <<enq, probed, fin>>

SeqsUpTo(S, n) == UNION {[1 .. k -> S] : k \in 0 .. n}

\* The state once the channels are created and the workers spawned, for a
\* command line and a file of at most n rows drawn from kinds.
Start(args, kinds, n) ==
    /\ arg \in args
    /\ rows \in (IF arg = "file" THEN SeqsUpTo(kinds, n) ELSE {<<>>})
    /\ mpc = "args"
    /\ index = 0
    /\ tx = [w \in Workers |-> TRUE]
    /\ rx = [w \in Workers |-> TRUE]
    /\ queue = [w \in Workers |-> <<>>]
    /\ wpc = [w \in Workers |-> "start"]
    /\ cur = [w \in Workers |-> <<>>]
    /\ wres = [w \in Workers |-> "none"]
    /\ out = [w \in Workers |-> <<>>]
    /\ enq = [w \in Workers |-> <<>>]
    /\ probed = [w \in Workers |-> <<>>]
    /\ fin = [w \in Workers |-> <<>>]

Init == Start(ArgKinds, RowKinds, MaxRows)

\* files of up to LongRows rows
InitLong == Start(ArgKinds, RowKinds, LongRows)

\* a file that opens and whose rows all deserialize
InitWellFormed == Start({"file"}, Hosts, MaxRows)

\* The records that decide how dispatch goes: one whose probe completes and
\* one whose connect fails.
DispatchKinds == {"up", "unreachable"}

\* files of up to DispatchRows such rows
InitDispatch == Start({"file"}, DispatchKinds, DispatchRows)

\* files of up to ShortRows rows
InitShort == Start(ArgKinds, RowKinds, ShortRows)

\* ------------------------------------------------------------------ main
\* Leaving main with `?` drops `workers`: every Sender and every JoinHandle.
DropSenders == [w \in Workers |-> FALSE]

\* MainArgs that treats a missing argument as an error (usage, then Err)
MainArgsUsageErr ==
    /\ mpc = "args"
    /\ \/ /\ arg \in {"none", "unreadable"}
          /\ mpc' = "err"
          /\ tx' = DropSenders
       \/ /\ arg = "file"
          /\ mpc' = "read"
          /\ tx' = tx
    /\ UNCHANGED <<input, index, rx, queue, wpc, cur, wres, out, hist>>

\* if let Some(file_name) = env::args().nth(1) { csv::Reader::from_path(..)? }
\* else { usage() }
MainArgs ==
    /\ mpc = "args"
    /\ \/ /\ arg = "none"
          /\ mpc' = "collect"
          /\ tx' = tx
       \/ /\ arg = "unreadable"
          /\ mpc' = "err"
          /\ tx' = DropSenders
       \/ /\ arg = "file"
          /\ mpc' = "read"
          /\ tx' = tx
    /\ UNCHANGED <<input, index, rx, queue, wpc, cur, wres, out, hist>>

\* the worker a row is routed to: &workers[index % WORKERS]
Target(i) == i % WORKERS

\* for (index, result) in rdr.deserialize().enumerate(): the next row, or the
\* end of the loop; `result?` returns the error of a row that does not parse.
ReadRow ==
    /\ mpc = "read"
    /\ \/ /\ index = Len(rows)
          /\ mpc' = "collect"
          /\ tx' = tx
       \/ /\ index < Len(rows)
          /\ rows[index + 1] = Malformed
          /\ mpc' = "err"
          /\ tx' = DropSenders
       \/ /\ index < Len(rows)
          /\ rows[index + 1] # Malformed
          /\ mpc' = "send"
          /\ tx' = tx
    /\ UNCHANGED <<input, index, rx, queue, wpc, cur, wres, out, hist>>

\* SendOk without the capacity of the channel (an unbounded channel)
SendOkUnbounded ==
    /\ mpc = "send"
    /\ LET w == Target(index) IN
        /\ rx[w]
        /\ queue' = [queue EXCEPT ![w] = Append(@, [id |-> index, dom |-> Domain(index, rows[index + 1])])]
        /\ enq' = [enq EXCEPT ![w] = Append(@, index)]
    /\ index' = index + 1
    /\ mpc' = "read"
    /\ UNCHANGED <<input, tx, rx, wpc, cur, wres, out, probed, fin>>

\* SendOk that falls back to the next worker when the target's queue is full
SendOkSpill ==
    /\ mpc = "send"
    /\ \E w \in {Target(index), Target(index + 1)} :
        /\ w = Target(index) \/ Len(queue[Target(index)]) >= CHANNEL_BUFFER
        /\ rx[w]
        /\ Len(queue[w]) < CHANNEL_BUFFER
        /\ queue' = [queue EXCEPT ![w] = Append(@, [id |-> index, dom |-> Domain(index, rows[index + 1])])]
        /\ enq' = [enq EXCEPT ![w] = Append(@, index)]
    /\ index' = index + 1
    /\ mpc' = "read"
    /\ UNCHANGED <<input, tx, rx, wpc, cur, wres, out, probed, fin>>

\* tx.send(record).await completes with Ok: the channel has a free slot and
\* its Receiver is alive.  The record is queued and the loop goes on.
SendOk ==
    /\ mpc = "send"
    /\ LET w == Target(index) IN
        /\ rx[w]
        /\ Len(queue[w]) < CHANNEL_BUFFER
        /\ queue' = [queue EXCEPT ![w] = Append(@, [id |-> index, dom |-> Domain(index, rows[index + 1])])]
        /\ enq' = [enq EXCEPT ![w] = Append(@, index)]
    /\ index' = index + 1
    /\ mpc' = "read"
    /\ UNCHANGED <<input, tx, rx, wpc, cur, wres, out, probed, fin>>

\* SendErr that never happens: a send to a dropped Receiver stays suspended
SendErrBlocks ==
    /\ mpc = "send"
    /\ FALSE
    /\ UNCHANGED vars

\* tx.send(record).await completes with Err(SendError): the Receiver of the
\* channel was dropped.  `?` returns the error from main.
SendErr ==
    /\ mpc = "send"
    /\ ~rx[Target(index)]
    /\ mpc' = "err"
    /\ tx' = DropSenders
    /\ UNCHANGED <<input, index, rx, queue, wpc, cur, wres, out, hist>>

\* JoinAll that keeps the senders while it awaits (join_all over a borrow)
JoinAllKeepSenders ==
    /\ mpc = "collect"
    /\ mpc' = "join"
    /\ UNCHANGED <<input, index, tx, rx, queue, wpc, cur, wres, out, hist>>

\* join_all(workers.into_iter().map(|(_, w)| w)): building the future consumes
\* the vector and drops every Sender before anything is awaited.
JoinAll ==
    /\ mpc = "collect"
    /\ mpc' = "join"
    /\ tx' = DropSenders
    /\ UNCHANGED <<input, index, rx, queue, wpc, cur, wres, out, hist>>

\* let _ = join_all(..).await; Ok(()): every task has ended, whatever it returned.
MainOk ==
    /\ mpc = "join"
    /\ \A w \in Workers : wpc[w] = "done"
    /\ mpc' = "ok"
    /\ UNCHANGED <<input, index, tx, rx, queue, wpc, cur, wres, out, hist>>

Main == MainArgs \/ ReadRow \/ SendOk \/ SendErr \/ JoinAll \/ MainOk

\* ---------------------------------------------------------------- workers
\* The task ends with result r: its Receiver is dropped, which closes the
\* channel and discards what is still buffered in it.
Return(w, r) ==
    /\ wpc' = [wpc EXCEPT ![w] = "done"]
    /\ wres' = [wres EXCEPT ![w] = r]
    /\ rx' = [rx EXCEPT ![w] = FALSE]
    /\ queue' = [queue EXCEPT ![w] = <<>>]
    /\ cur' = [cur EXCEPT ![w] = <<>>]

\* let connector = SslConnector::builder(SslMethod::tls_client())?.build();
WorkerStart(w) ==
    /\ wpc[w] = "start"
    /\ \/ /\ wpc' = [wpc EXCEPT ![w] = "recv"]
          /\ UNCHANGED <<rx, queue, cur, wres>>
       \/ Return(w, "ErrSsl")
    /\ UNCHANGED <<input, mainVars, out, hist>>

\* Recv that does not wait for the probe in flight (a probe spawned per record)
RecvOverlapping(w) ==
    /\ wpc[w] \in {"recv", "probe"}
    /\ queue[w] # <<>>
    /\ cur' = [cur EXCEPT ![w] = Head(queue[w])]
    /\ queue' = [queue EXCEPT ![w] = Tail(@)]
    /\ wpc' = [wpc EXCEPT ![w] = "probe"]
    /\ probed' = [probed EXCEPT ![w] = Append(@, Head(queue[w]).id)]
    /\ UNCHANGED <<input, mainVars, rx, wres, out, enq, fin>>

\* while let Some(domain) = rx.recv().await: the oldest buffered record; None
\* (the loop ends, Ok(())) once the channel is empty and its Sender is dropped.
Recv(w) ==
    /\ wpc[w] = "recv"
    /\ \/ /\ queue[w] # <<>>
          /\ cur' = [cur EXCEPT ![w] = Head(queue[w])]
          /\ queue' = [queue EXCEPT ![w] = Tail(@)]
          /\ wpc' = [wpc EXCEPT ![w] = "probe"]
          /\ probed' = [probed EXCEPT ![w] = Append(@, Head(queue[w]).id)]
          /\ UNCHANGED <<rx, wres>>
       \/ /\ queue[w] = <<>>
          /\ ~tx[w]
          /\ Return(w, "Ok")
          /\ probed' = probed
    /\ UNCHANGED <<input, mainVars, out, enq, fin>>

\* Emit whose Err arm falls through to the Ok arm's println
EmitBoth(w, rec) ==
    LET code == HandshakeCode(rec.dom.domain) IN
    IF code = 0 THEN <<OkLine(w, rec.dom)>>
    ELSE IF code = BlockedCode THEN <<BlockedLine(rec.dom), OkLine(w, rec.dom)>>
    ELSE <<>>

\* Emit that reports every failed handshake as blocked (no test of the code)
EmitAnyError(w, rec) ==
    LET code == HandshakeCode(rec.dom.domain) IN
    IF code = 0 THEN <<OkLine(w, rec.dom)>>
    ELSE <<BlockedLine(rec.dom)>>

\* What the match on connector.connect(..) prints for a record
Emit(w, rec) ==
    LET code == HandshakeCode(rec.dom.domain) IN
    IF code = 0 THEN <<OkLine(w, rec.dom)>>
    ELSE IF code = BlockedCode THEN <<BlockedLine(rec.dom)>>
    ELSE <<>>

\* The body of the loop for the record just received, which runs without a
\* suspension point: StdTcpStream::connect(&host)? returns the error of a
\* failed connect from the task; otherwise the handshake runs, its outcome is
\* matched and printed, and the task is back at rx.recv().
Probe(w) ==
    /\ wpc[w] = "probe"
    /\ fin' = [fin EXCEPT ![w] = Append(@, cur[w].id)]
    /\ \/ /\ ConnectOk(cur[w].dom.domain)
          /\ out' = [out EXCEPT ![w] = @ \o Emit(w, cur[w])]
          /\ cur' = [cur EXCEPT ![w] = <<>>]
          /\ wpc' = [wpc EXCEPT ![w] = "recv"]
          /\ UNCHANGED <<rx, queue, wres>>
       \/ /\ ~ConnectOk(cur[w].dom.domain)
          /\ Return(w, "ErrConnect")
          /\ out' = out
    /\ UNCHANGED <<input, mainVars, enq, probed>>

\* main has returned an error without awaiting the tasks: the runtime shuts
\* down and a task that is not being polled (not yet started, or suspended
\* in rx.recv().await) is dropped; a task inside a poll runs on to its next
\* suspension point, and rx.recv() of a closed channel does not suspend.
Cancel(w) ==
    /\ mpc = "err"
    /\ wpc[w] \in {"start", "recv"}
    /\ Return(w, "cancelled")
    /\ UNCHANGED <<input, mainVars, out, hist>>

Worker(w) == WorkerStart(w) \/ Recv(w) \/ Probe(w)

Next ==
    \/ Main
    \/ \E w \in Workers : Worker(w)
    \/ \E w \in Workers : Cancel(w)

Spec == Init /\ [][Next]_vars

SpecLong == InitLong /\ [][Next]_vars

SpecDispatch == InitDispatch /\ [][Next]_vars

\* The runtime schedules main and every task that can run; every probe call
\* returns.  Nothing forces the shutdown to drop a task.
Fairness ==
    /\ WF_vars(Main)
    /\ \A w \in Workers : WF_vars(Worker(w))

FairSpec == Spec /\ Fairness

\* the runs over a file that opens and whose rows all deserialize
FairSpecWellFormed == InitWellFormed /\ [][Next]_vars /\ Fairness

\* the runs with no argument, or over a file of at most ShortRows rows
FairSpecShort == InitShort /\ [][Next]_vars /\ Fairness

TypeOK ==
    /\ arg \in ArgKinds
    /\ Len(rows) <= DispatchRows
    /\ mpc \in {"args", "read", "send", "collect", "join", "ok", "err"}
    /\ index \in 0 .. Len(rows)
    /\ \A w \in Workers :
        /\ wpc[w] \in {"start", "recv", "probe", "done"}
        /\ wres[w] \in {"none", "Ok", "ErrSsl", "ErrConnect", "cancelled"}
        /\ (wpc[w] = "probe") <=> (cur[w] # <<>>)

\* ------------------------------------------------------- shared vocabulary
Range(f) == {f[k] : k \in DOMAIN f}

IsPrefix(s, t) == Len(s) <= Len(t) /\ SubSeq(t, 1, Len(s)) = s

\* how many times x occurs in the sequence s
Count(s, x) == Cardinality({k \in DOMAIN s : s[k] = x})

\* the source indices of the rows of the file
RowIds == 0 .. (Len(rows) - 1)

\* a file was given and every row of it deserializes
WellFormed == arg = "file" /\ \A i \in RowIds : rows[i + 1] # Malformed

\* no worker failed to build its SslConnector
NoSslFailure == \A w \in Workers : wres[w] # "ErrSsl"

\* no worker returned the error of a TCP connect
NoConnectFailure == \A w \in Workers : wres[w] # "ErrConnect"

MainReturned == mpc \in {"ok", "err"}

\* main has returned and no task is left: the process has exited
Exited == MainReturned /\ \A w \in Workers : wpc[w] = "done"

\* main stopped at a row that does not deserialize
AbortedAtMalformedRow ==
    mpc = "err" /\ arg = "file" /\ index < Len(rows) /\ rows[index + 1] = Malformed

\* --------------------------------------------------------------- claims
\* C1: once the run over a well-formed input is over, the i-th record has been
\* enqueued exactly once, onto the queue of worker i mod N and onto no other.
C1_EachRecordEnqueuedOnceOnItsWorker ==
    (MainReturned /\ WellFormed /\ NoSslFailure) =>
        \A i \in RowIds : \A w \in Workers :
            Count(enq[w], i) = (IF w = i % WORKERS THEN 1 ELSE 0)

\* C2: a worker that entered its receive loop leaves it only when its queue is
\* closed (sender dropped) and drained; no probe outcome makes it return.
C2_WorkerReturnsOnlyAtEndOfQueue ==
    [][\A w \in Workers :
        (wpc[w] # "done" /\ wpc'[w] = "done" /\ wres'[w] \in {"Ok", "ErrConnect"})
            => (~tx[w] /\ queue[w] = <<>>)]_vars

\* C3: main returns an error only if the file could not be opened or a row did
\* not deserialize; no probe outcome makes main return an error.
C3_MainFailsOnlyOnDispatcherError ==
    (mpc = "err" /\ NoSslFailure) => (arg = "unreadable" \/ AbortedAtMalformedRow)

\* C4: when main has awaited the workers and returned Ok, every record that
\* was enqueued onto a worker's queue has been dequeued and probed by that
\* worker.
C4_EveryEnqueuedRecordProbed ==
    (mpc = "ok" /\ NoSslFailure) =>
        \A w \in Workers : probed[w] = enq[w] /\ fin[w] = enq[w]

\* C5: if row k is the (first) malformed row, main returns an error having
\* enqueued exactly the records 0..k-1 and none with a source index >= k.
C5_AbortAtMalformedRow ==
    \A k \in RowIds :
        (/\ MainReturned
         /\ NoSslFailure
         /\ rows[k + 1] = Malformed
         /\ \A j \in 0 .. (k - 1) : rows[j + 1] # Malformed)
        => (/\ mpc = "err"
            /\ UNION {Range(enq[w]) : w \in Workers} = 0 .. (k - 1))

\* C6: when main has aborted at a malformed row and the process has exited,
\* every record enqueued before that row has been dequeued and probed.
C6_EnqueuedRecordsProbedAfterAbort ==
    (Exited /\ AbortedAtMalformedRow /\ NoSslFailure /\ NoConnectFailure) =>
        \A w \in Workers : probed[w] = enq[w] /\ fin[w] = enq[w]

C8_BackPressure ==
    \A w \in Workers :
        /\ Len(queue[w]) <= CHANNEL_BUFFER
        /\ Len(enq[w]) <= CHANNEL_BUFFER + Len(probed[w])

\* main is suspended in a send onto a queue that is full and still received from
C8_Witness ==
    /\ mpc = "send"
    /\ rx[index % WORKERS]
    /\ Len(queue[index % WORKERS]) = CHANNEL_BUFFER

LinePositions == UNION {{<<w, k>> : k \in 1 .. Len(out[w])} : w \in Workers}

LineAt(p) == out[p[1]][p[2]]

\* the rank, domain and score a printed line carries
LineFields(line) ==
    LET t == line.text
        n == Len(line.text)
    IN [rank |-> t[n - 2], domain |-> t[n - 4], page_rank |-> t[n]]

\* the lines about the record of row i
LinesAbout(i) == {p \in LinePositions : LineFields(LineAt(p)) = Domain(i, rows[i + 1])}

\* C10: at most M lines are printed, every line carries the rank, domain and
\* score of an input record, and no input record has more than one line.
C10_LinesMatchRecords ==
    /\ Cardinality(LinePositions) <= Len(rows)
    /\ \A p \in LinePositions :
        \E i \in RowIds : rows[i + 1] # Malformed /\ p \in LinesAbout(i)
    /\ \A i \in RowIds : Cardinality(LinesAbout(i)) <= 1

\* a full-size file whose every record got its line, on both streams
C10_Witness ==
    /\ mpc = "ok"
    /\ Len(rows) = MaxRows
    /\ Cardinality(LinePositions) = MaxRows
    /\ \E p, q \in LinePositions : LineAt(p).stream = "stdout" /\ LineAt(q).stream = "stderr"

\* C11: for every record whose probe by worker w has ended: a completed
\* handshake left exactly one line, on stdout, labelled w; a handshake that
\* failed with SSL error code 5 left exactly one line, a BLOCKED line on
\* stderr; any other outcome (failed connect, other handshake error) left no
\* line.  A record whose probe has not ended has no line.
C11_ResultRouting ==
    /\ \A w \in Workers : \A k \in DOMAIN fin[w] :
        LET i == fin[w][k]
            d == rows[i + 1]
        IN  IF ConnectOk(d) /\ HandshakeCode(d) = 0
            THEN \E p \in LinePositions :
                    /\ LinesAbout(i) = {p}
                    /\ p[1] = w
                    /\ LineAt(p).stream = "stdout"
                    /\ LineAt(p).text[1] = w
                    /\ LineAt(p).text[2] = "ok"
            ELSE IF ConnectOk(d) /\ HandshakeCode(d) = 5
            THEN \E p \in LinePositions :
                    /\ LinesAbout(i) = {p}
                    /\ p[1] = w
                    /\ LineAt(p).stream = "stderr"
                    /\ LineAt(p).text[1] = "BLOCKED! domain"
            ELSE LinesAbout(i) = {}
    /\ \A i \in RowIds :
        (\A w \in Workers : i \notin Range(fin[w])) => LinesAbout(i) = {}

\* a completed handshake, a code-5 failure and another handshake failure have
\* all been probed to the end
C11_Witness ==
    /\ rows = <<"up", "reset", "badcert">>
    /\ UNION {Range(fin[w]) : w \in Workers} = RowIds

\* the run dispatches no record: no file argument, or a file with no data row
NoRecords == arg = "none" \/ (arg = "file" /\ rows = <<>>)

\* C12: a run that dispatches no record never enqueues or prints anything and
\* never returns an error; its senders are all dropped when the workers are
\* awaited; it does return Ok, and then every one of the N worker tasks has
\* ended, with Ok unless its SslConnector could not be built.
C12_NoRecordRun ==
    /\ [](NoRecords =>
            /\ mpc # "err"
            /\ \A w \in Workers : out[w] = <<>> /\ enq[w] = <<>> /\ wres[w] # "cancelled")
    /\ []((NoRecords /\ mpc = "join") => \A w \in Workers : ~tx[w])
    /\ []((NoRecords /\ mpc = "ok") =>
            \A w \in Workers : wpc[w] = "done" /\ wres[w] \in {"Ok", "ErrSsl"})
    /\ (NoRecords ~> (mpc = "ok"))

\* the usage run has returned Ok with every worker ended by the end of its queue
C12_Witness ==
    /\ arg = "none"
    /\ mpc = "ok"
    /\ \A w \in Workers : wres[w] = "Ok"

\* C13: when a worker could not build its SslConnector, the run does not end
\* with success: main does not return Ok.
C13_ConnectorFailureIsFatal ==
    (arg = "file" /\ \E w \in Workers : wres[w] = "ErrSsl") => mpc # "ok"

\* every source index enqueued so far, on any queue
Enqueued == UNION {Range(enq[w]) : w \in Workers}

\* C14: the records enqueued so far are exactly those before the row main is
\* at; a step enqueues at most the record main is sending, onto queue
\* index mod N, and only then does main move to the next row; while main is
\* suspended in a send onto a full queue no step enqueues anything anywhere.
C14_SequentialDispatch ==
    /\ [](Enqueued = 0 .. (index - 1))
    /\ [][/\ enq' # enq =>
                /\ mpc = "send"
                /\ enq' = [enq EXCEPT ![index % WORKERS] = Append(@, index)]
                /\ index' = index + 1
          /\ index' # index => enq' # enq
          /\ (mpc = "send" /\ Len(queue[index % WORKERS]) = CHANNEL_BUFFER) => enq' = enq
         ]_vars

\* main is suspended in a send onto a full queue, another worker is idle with
\* an empty queue, and a row for that worker is still to be read
C14_Witness ==
    /\ mpc = "send"
    /\ rx[index % WORKERS]
    /\ Len(queue[index % WORKERS]) = CHANNEL_BUFFER
    /\ index + 1 < Len(rows)
    /\ wpc[(index + 1) % WORKERS] = "recv"
    /\ queue[(index + 1) % WORKERS] = <<>>

RECURSIVE SumLen(_, _)
\* the total length of the sequences f[w], w in S
SumLen(f, S) ==
    IF S = {} THEN 0
    ELSE LET w == CHOOSE x \in S : TRUE IN Len(f[w]) + SumLen(f, S \ {w})

\* the records main has read from the source: those it has sent, and the one
\* it holds in a send that is pending or has failed
RecordsRead ==
    index + (IF mpc \in {"send", "err"} /\ index < Len(rows) /\ rows[index + 1] # Malformed
             THEN 1 ELSE 0)

\* the records read whose probe has not ended
Unfinished == RecordsRead - SumLen(fin, Workers)

\* C15: the records read from the source whose probe has not ended number at
\* most N*C + N + 1: at most C in each queue, one in each worker's probe, one
\* in main's send.
C15_BoundedInFlight ==
    /\ Unfinished <= WORKERS * CHANNEL_BUFFER + WORKERS + 1
    /\ \A w \in Workers : Len(probed[w]) - Len(fin[w]) <= 1

\* every queue is full, every worker is probing and main holds one more record,
\* with a further row still in the file
C15_Witness ==
    /\ Unfinished = WORKERS * CHANNEL_BUFFER + WORKERS + 1
    /\ mpc = "send"
    /\ \A w \in Workers : wpc[w] = "probe" /\ Len(queue[w]) = CHANNEL_BUFFER
    /\ index + 1 < Len(rows)

\* C16: as long as main has not returned or a task is left, main or a worker
\* can take a step; a send whose Receiver is dropped can fail at once; the
\* workers are awaited only with every sender dropped; and (every probe
\* returning) main does return.
C16_NoDeadlock ==
    /\ [](~Exited => ENABLED (Main \/ \E w \in Workers : Worker(w)))
    /\ []((mpc = "send" /\ ~rx[index % WORKERS]) => ENABLED SendErr)
    /\ []((mpc = "join") => \A w \in Workers : ~tx[w])
    /\ <>MainReturned

\* main has returned because a send onto the queue of a worker that had
\* already returned failed
C16_Witness ==
    /\ mpc = "err"
    /\ index < Len(rows)
    /\ rows[index + 1] # Malformed
    /\ wres[index % WORKERS] = "ErrConnect"

RECURSIVE PromptRunErrs(_, _)
\* Whether main returns an error in the run over rows in which every worker
\* ends the probe of a record before main reads the next row: i is the row
\* main is at, dead the workers that have returned from a failed connect.
PromptRunErrs(i, dead) ==
    IF i = Len(rows) THEN FALSE
    ELSE IF rows[i + 1] = Malformed THEN TRUE
    ELSE IF (i % WORKERS) \in dead THEN TRUE
    ELSE PromptRunErrs(i + 1, IF ConnectOk(rows[i + 1]) THEN dead ELSE dead \cup {i % WORKERS})

\* C17: the status main returns is a function of the file and of the outcome
\* of each row's probe: whatever the interleaving, a run over a file ends with
\* the status of the run over the same file in which the workers are prompt.
C17_StatusIsFunctionOfInput ==
    (MainReturned /\ arg = "file" /\ NoSslFailure) =>
        ((mpc = "err") <=> PromptRunErrs(0, {}))

====
